---- MODULE Spec2Model ----
(***************************************************************************)
(* Model of the Acid class (src/acid.py) and of the proton-condition       *)
(* accumulation of plot_sillen_interactive (src/sillen.py).                *)
(*                                                                         *)
(* Numbers.  pH and pKa values are carried in hundredths (pH 7.0 is 700,   *)
(* pKa 3.13 is 313).  A float that the code computes by powers, products   *)
(* and sums is a decimal <<m, e>> standing for m * 10^(-e), kept exact;    *)
(* a quotient is a fraction [n, d, e] standing for (n / d) * 10^(-e) in    *)
(* lowest terms, so that equal values are equal records.  The only         *)
(* rounding is the one of 10 ** (-x) for a non-integer x, which is taken   *)
(* to three significant digits.  np.log10 of a positive number is kept as  *)
(* the logarithm of that number, and is -inf at 0 and nan below 0.         *)
(***************************************************************************)
EXTENDS Integers, Sequences, FiniteSets

(***************************************************************************)
(* Bounds of the explored inputs.                                          *)
(***************************************************************************)
\* largest number of dissociation constants of a generated acid
MaxN == 2
\* generated pKa values are 0, 1, ..., MaxPKa (whole units)
MaxPKa == 1
\* generated pH values are 0, 1, ..., MaxPH (whole units)
MaxPH == 1

(***************************************************************************)
(* Exact decimal arithmetic.                                               *)
(***************************************************************************)
RECURSIVE Pow10(_)
Pow10(k) == IF k <= 0 THEN 1 ELSE 10 * Pow10(k - 1)

Abs(x) == IF x < 0 THEN -x ELSE x

Max(a, b) == IF a >= b THEN a ELSE b

RECURSIVE Gcd(_, _)
Gcd(a, b) == IF b = 0 THEN a ELSE Gcd(b, a % b)

\* the decimal m * 10^(-e) without trailing zeros in m
RECURSIVE Dec(_, _)
Dec(m, e) ==
    IF m = 0 THEN <<0, 0>>
    ELSE IF m % 10 = 0 THEN Dec(m \div 10, e - 1)
    ELSE <<m, e>>

\* the integer x * 10^e, for an exponent e no smaller than x's own
Scaled(x, e) == x[1] * Pow10(e - x[2])

DMul(x, y) == Dec(x[1] * y[1], x[2] + y[2])

DAdd(x, y) ==
    IF x[1] = 0 THEN y ELSE IF y[1] = 0 THEN x ELSE
    LET e == Max(x[2], y[2]) IN Dec(Scaled(x, e) + Scaled(y, e), e)

DLe(x, y) ==
    IF x[1] = 0 THEN y[1] >= 0 ELSE IF y[1] = 0 THEN x[1] <= 0 ELSE
    LET e == Max(x[2], y[2]) IN Scaled(x, e) <= Scaled(y, e)

DOne == <<1, 0>>

DZero == <<0, 0>>

\* round(1000 * 10^(-r/100)) for r = 0..99
Pow10Frac ==
   << 1000, 977, 955, 933, 912, 891, 871, 851, 832, 813,
      794, 776, 759, 741, 724, 708, 692, 676, 661, 646,
      631, 617, 603, 589, 575, 562, 550, 537, 525, 513,
      501, 490, 479, 468, 457, 447, 437, 427, 417, 407,
      398, 389, 380, 372, 363, 355, 347, 339, 331, 324,
      316, 309, 302, 295, 288, 282, 275, 269, 263, 257,
      251, 245, 240, 234, 229, 224, 219, 214, 209, 204,
      200, 195, 191, 186, 182, 178, 174, 170, 166, 162,
      158, 155, 151, 148, 145, 141, 138, 135, 132, 129,
      126, 123, 120, 117, 115, 112, 110, 107, 105, 102 >>

\* 10 ** (-x) with x truncated to whole units
Pow10NegWhole(x) == Dec(1, x \div 100)

\* 10 ** (-x), x in hundredths
Pow10Neg(x) == Dec(Pow10Frac[(x % 100) + 1], (x \div 100) + 3)

\* 10 ** x, x in hundredths (sillen.py writes 10 ** (-14 + pH))
Pow10Pos(x) == Pow10Neg(-x)

\* x ** k for k >= 0 by repeated multiplication
RECURSIVE DPowNat(_, _)
DPowNat(x, k) == IF k <= 0 THEN DOne ELSE DMul(x, DPowNat(x, k - 1))

\* math.pow(x, k) for x > 0; a negative k gives the reciprocal of x ** (-k),
\* exact when that is a power of ten and to six digits otherwise
MathPow(x, k) ==
    IF k >= 0 THEN DPowNat(x, k)
    ELSE LET p == DPowNat(x, -k) IN
         IF p[1] = 1 THEN <<1, -p[2]>>
         ELSE Dec(1000000 \div p[1], 6 - p[2])

(***************************************************************************)
(* Fractions: (n / d) * 10^(-e) with d > 0 prime to 10 and to n, and n     *)
(* not a multiple of 10.                                                   *)
(***************************************************************************)
RECURSIVE FracTens(_, _, _)
FracTens(n, d, e) ==
    IF n % 10 = 0 THEN FracTens(n \div 10, d, e - 1)
    ELSE [n |-> n, d |-> d, e |-> e]

RECURSIVE FracTwoFive(_, _, _)
FracTwoFive(n, d, e) ==
    IF d % 2 = 0 THEN FracTwoFive(n * 5, d \div 2, e + 1)
    ELSE IF d % 5 = 0 THEN FracTwoFive(n * 2, d \div 5, e + 1)
    ELSE LET g == Gcd(Abs(n), d) IN FracTens(n \div g, d \div g, e)

\* the fraction (n / d) * 10^(-e), d # 0
Frac(n, d, e) ==
    IF n = 0 THEN [n |-> 0, d |-> 1, e |-> 0]
    ELSE LET s == IF d < 0 THEN -1 ELSE 1
             g == Gcd(Abs(n), Abs(d))
         IN FracTwoFive((s * n) \div g, (s * d) \div g, e)

\* x / y for decimals, y # 0
DDiv(x, y) == Frac(x[1], y[1], x[2] - y[2])

\* the decimal x as a fraction
FracOf(x) == Frac(x[1], 1, x[2])

\* decimal times fraction
FMulD(x, f) == Frac(x[1] * f.n, f.d, x[2] + f.e)

FAdd(f, g) ==
    IF f.n = 0 THEN g ELSE IF g.n = 0 THEN f ELSE
    LET e == Max(f.e, g.e)
        c == Gcd(f.d, g.d)
    IN Frac(f.n * Pow10(e - f.e) * (g.d \div c) + g.n * Pow10(e - g.e) * (f.d \div c),
            (f.d \div c) * g.d, e)

FOne == [n |-> 1, d |-> 1, e |-> 0]

FZero == [n |-> 0, d |-> 1, e |-> 0]

\* f <= 1, for f >= 0
FLeOne(f) ==
    IF f.e >= 0 THEN f.n <= f.d \/ f.n <= f.d * Pow10(f.e)
    ELSE f.n * Pow10(-f.e) <= f.d

(***************************************************************************)
(* Outcomes of a call: a returned value or a raised exception.             *)
(***************************************************************************)
Returned(v) == [kind |-> "value", v |-> v]

Raised(exc) == [kind |-> "error", exc |-> exc]

\* a float
Num(f) == [tag |-> "num", f |-> f]

(***************************************************************************)
(* class Acid                                                              *)
(***************************************************************************)
\* "$" in name, the name being a sequence of characters
HasDollar(name) == \E k \in 1..Len(name) : name[k] = "$"

\* the fields __init__ assigns
AcidFields(pKa, C, name, charge) ==
    [pKa    |-> pKa,
     Ka     |-> [k \in 1..Len(pKa) |-> Pow10Neg(pKa[k])],
     C      |-> C,
     name   |-> name,
     charge |-> charge]

\* Acid(pKa, C, name, charge): the new instance, or the exception raised
AcidInit(pKa, C, name, charge) ==
    IF HasDollar(name) THEN Raised("Exception")
    ELSE Returned(AcidFields(pKa, C, name, charge))

\* the loop over j multiplying by self.Ka[j] instead of self.Ka[j-1]
RECURSIVE EnumLoopSlip(_, _, _, _)
EnumLoopSlip(Ka, i, j, enum) ==
    IF j > i THEN Returned(enum)
    ELSE IF j >= Len(Ka) THEN Raised("IndexError")
    ELSE EnumLoopSlip(Ka, i, j + 1, DMul(enum, Ka[j + 1]))

\* for j in range(1, i+1): enum *= self.Ka[j-1]
RECURSIVE EnumLoop(_, _, _, _)
EnumLoop(Ka, i, j, enum) ==
    IF j > i THEN Returned(enum)
    ELSE IF j - 1 >= Len(Ka) THEN Raised("IndexError")
    ELSE EnumLoop(Ka, i, j + 1, DMul(enum, Ka[j]))

\* enum = pow(H, n-i+1), then the loop over j
AlphaEnumOffByOne(a, i, pH) ==
    LET H == Pow10Neg(pH)
        n == Len(a.Ka)
    IN EnumLoop(a.Ka, i, 1, MathPow(H, n - i + 1))

\* enum = pow(H, n-i), then the loop over j
AlphaEnum(a, i, pH) ==
    LET H == Pow10Neg(pH)
        n == Len(a.Ka)
    IN EnumLoop(a.Ka, i, 1, MathPow(H, n - i))

\* the inner loop over range(1, k) instead of range(1, k+1)
RECURSIVE InnerLoopShort(_, _, _, _, _)
InnerLoopShort(Ka, kk, stop, p, k) ==
    IF kk > stop - 1 THEN <<p, k>>
    ELSE InnerLoopShort(Ka, kk + 1, stop, DMul(p, Ka[kk]), kk)

\* for k in range(1, k+1): p *= self.Ka[k-1]
\* range(1, k+1) is evaluated once, so the loop runs to stop = the outer k
\* while k itself is rebound to kk; the pair <<p, k>> after the loop
RECURSIVE InnerLoop(_, _, _, _, _)
InnerLoop(Ka, kk, stop, p, k) ==
    IF kk > stop THEN <<p, k>>
    ELSE InnerLoop(Ka, kk + 1, stop, DMul(p, Ka[kk]), kk)

\* the term the outer loop adds for the value k its iterator yields
DenomTerm(Ka, H, n, k) ==
    InnerLoop(Ka, 1, k, MathPow(H, n - k), k)[1]

\* the outer loop over range(1, n) instead of range(1, n+1)
RECURSIVE OuterLoopShort(_, _, _, _, _)
OuterLoopShort(Ka, H, n, it, denom) ==
    IF it > n - 1 THEN denom
    ELSE OuterLoopShort(Ka, H, n, it + 1, DAdd(denom, DenomTerm(Ka, H, n, it)))

\* for k in range(1, n+1): ...; denom += p
\* the iterator of range(1, n+1) yields it, whatever k was rebound to
RECURSIVE OuterLoop(_, _, _, _, _)
OuterLoop(Ka, H, n, it, denom) ==
    IF it > n THEN denom
    ELSE OuterLoop(Ka, H, n, it + 1, DAdd(denom, DenomTerm(Ka, H, n, it)))

\* denom = 0, then the loop over k
AlphaDenomNoBase(a, pH) ==
    LET H == Pow10Neg(pH)
        n == Len(a.Ka)
    IN OuterLoop(a.Ka, H, n, 1, DZero)

\* denom = pow(H, n), then the loop over k
AlphaDenom(a, pH) ==
    LET H == Pow10Neg(pH)
        n == Len(a.Ka)
    IN OuterLoop(a.Ka, H, n, 1, MathPow(H, n))

\* Acid.alpha(i, pH)
Alpha(a, i, pH) ==
    LET enum == AlphaEnum(a, i, pH) IN
    IF enum.kind = "error" THEN enum
    ELSE LET denom == AlphaDenom(a, pH) IN
         IF denom = DZero THEN Raised("ZeroDivisionError")
         ELSE Returned(Num(DDiv(enum.v, denom)))

\* Acid.c(i, pH)
Conc(a, i, pH) ==
    LET al == Alpha(a, i, pH) IN
    IF al.kind = "error" THEN al
    ELSE Returned(Num(FMulD(a.C, al.v.f)))

\* np.log10 of a float: the logarithm of a positive number, -inf at 0,
\* nan below 0
Log10(f) ==
    IF f.n > 0 THEN [tag |-> "log10", f |-> f]
    ELSE IF f.n = 0 THEN [tag |-> "-inf", f |-> FZero]
    ELSE [tag |-> "nan", f |-> FZero]

\* 10 ** x for x a value np.log10 returned
Exp10(x) ==
    IF x.tag = "log10" THEN Num(x.f)
    ELSE IF x.tag = "-inf" THEN Num(FZero)
    ELSE [tag |-> "nan", f |-> FZero]

\* Acid.logc(i, pH)
LogC(a, i, pH) ==
    LET c == Conc(a, i, pH) IN
    IF c.kind = "error" THEN c
    ELSE Returned(Log10(c.v.f))

\* charge_symbols.get(charge, str(abs(charge)) + ("+" if charge > 0 else "-"))
ChargeStr(charge) ==
    IF charge = 0 THEN [digits |-> 0, sign |-> ""]
    ELSE IF charge = 1 THEN [digits |-> 0, sign |-> "+"]
    ELSE IF charge = -1 THEN [digits |-> 0, sign |-> "-"]
    ELSE [digits |-> Abs(charge), sign |-> IF charge > 0 THEN "+" ELSE "-"]

\* Acid.__repr__(i): the pieces of the returned string
Repr(a, i) ==
    LET n == Len(a.pKa)
        protons == n - i
        charge == a.charge + protons
        head == IF protons = 0 THEN "" ELSE IF protons = 1 THEN "H" ELSE "H_"
    IN Returned([tag        |-> "str",
                 head       |-> head,
                 protons    |-> IF head = "H_" THEN protons ELSE 0,
                 latex      |-> protons # 0,
                 name       |-> a.name,
                 charge_str |-> ChargeStr(charge)])

(***************************************************************************)
(* Inputs                                                                  *)
(***************************************************************************)
\* the pKa list of the instance b of sillen.py
ScenarioPKa == <<313, 476, 640>>

SeqsUpTo(S, len) == UNION {[1..m -> S] : m \in 0..len}

PKaInputs == SeqsUpTo({100 * v : v \in 0..MaxPKa}, MaxN)

\* 0.1, 0 and -1
CInputs == {<<1, 1>>, <<0, 0>>, <<-1, 0>>}

NameInputs == {<<"A">>, <<"$", "A">>}

ChargeInputs == {0}

\* pH samples at which the exact sums stay within 32-bit integers: whole pH
\* values up to MaxPH for the generated acids, pH 7.0 for the instance b
PHInputs(a) ==
    IF a.pKa = ScenarioPKa THEN {700} ELSE {100 * v : v \in 0..MaxPH}

IndexInputs(a) == -1..(Len(a.pKa) + 1)

(***************************************************************************)
(* plot_sillen_interactive: the proton-condition series                    *)
(***************************************************************************)
\* [10**-pH for pH in pH_range]
PhgLeftInit(pH_range) ==
    [m \in 1..Len(pH_range) |-> Num(FracOf(Pow10Neg(pH_range[m])))]

\* [10**(-14 + pH) for pH in pH_range]
PhgRightInit(pH_range) ==
    [m \in 1..Len(pH_range) |-> Num(FracOf(Pow10Pos(-1400 + pH_range[m])))]

\* logc = [acid.logc(i, pH) for pH in pH_range]; i is a valid state here
LogcSeries(a, i, pH_range) ==
    [m \in 1..Len(pH_range) |-> LogC(a, i, pH_range[m]).v]

\* 10**np.array(logc)
Exp10Array(logc) == [m \in 1..Len(logc) |-> Exp10(logc[m])]

\* phg += array, phg being a Python list: list.__iadd__ extends the list
\* with the elements of the array
ListIAdd(phg, array) == phg \o array

\* the deprot_level that ip.zip_smart pairs with the k-th acid: None is
\* repeated for every acid, a list is zipped
DeprotLevel(deprot_levels, k) ==
    IF deprot_levels.given
    THEN [none |-> FALSE, level |-> deprot_levels.levels[k]]
    ELSE [none |-> TRUE, level |-> 0]

\* the arguments with which the plot is called: pH_range holds the first
\* num of the pH samples in increasing order, as np.linspace lays them out
RangeInputs(S) ==
    {r \in SeqsUpTo(S, Cardinality(S)) :
        /\ Len(r) >= 1
        /\ ~\E v \in S : v < r[1]
        /\ \A m \in 1..(Len(r) - 1) :
              /\ r[m] < r[m + 1]
              /\ \A v \in S : ~(r[m] < v /\ v < r[m + 1])}

LevelInputs(a, count) ==
    {[given |-> FALSE, levels |-> <<>>]}
    \cup {[given |-> TRUE, levels |-> l] : l \in [1..count -> 0..Len(a.pKa)]}

(***************************************************************************)
(* State: the constructed instance (at most one), the last call with its   *)
(* outcome, and the locals of a running plot_sillen_interactive.           *)
(***************************************************************************)
VARIABLES instances, ret, pc, args, ai, si, phg_left, phg_right

vars == <<instances, ret, pc, args, ai, si, phg_left, phg_right>>

plotVars == <<pc, args, ai, si, phg_left, phg_right>>

Call(op, i, pH, out) == [op |-> op, i |-> i, pH |-> pH, out |-> out]

NoArgs == [acids |-> <<>>, deprot_levels |-> [given |-> FALSE, levels |-> <<>>],
           pH_range |-> <<>>]

Init ==
    /\ instances = <<>>
    /\ ret = Call("none", 0, 0, Returned(Num(FZero)))
    /\ pc = "idle"
    /\ args = NoArgs
    /\ ai = 0
    /\ si = 0
    /\ phg_left = <<>>
    /\ phg_right = <<>>

New(pKa, C, name, charge) ==
    /\ instances = <<>>
    /\ pc = "idle"
    /\ LET out == AcidInit(pKa, C, name, charge) IN
       /\ instances' = IF out.kind = "value" THEN <<out.v>> ELSE <<>>
       /\ ret' = Call("__init__", 0, 0,
                      IF out.kind = "value" THEN Returned(Num(FZero)) ELSE out)
    /\ UNCHANGED plotVars

\* b = Acid([3.13, 4.76, 6.4], 0.1, name="PO4", charge=-3)
NewB == New(ScenarioPKa, <<1, 1>>, <<"P", "O", "4">>, -3)

CallAlpha(i, pH) ==
    /\ instances # <<>>
    /\ pc = "idle"
    /\ ret' = Call("alpha", i, pH, Alpha(instances[1], i, pH))
    /\ UNCHANGED <<instances, plotVars>>

\* c(i, pH) keeping its result in self.C
CallCInPlace(i, pH) ==
    /\ instances # <<>>
    /\ pc = "idle"
    /\ LET out == Conc(instances[1], i, pH) IN
       /\ ret' = Call("c", i, pH, out)
       /\ instances' = IF out.kind = "value"
                       THEN <<[instances[1] EXCEPT !.C = Dec(out.v.f.n, out.v.f.e)]>>
                       ELSE instances
    /\ UNCHANGED plotVars

CallC(i, pH) ==
    /\ instances # <<>>
    /\ pc = "idle"
    /\ ret' = Call("c", i, pH, Conc(instances[1], i, pH))
    /\ UNCHANGED <<instances, plotVars>>

CallLogc(i, pH) ==
    /\ instances # <<>>
    /\ pc = "idle"
    /\ ret' = Call("logc", i, pH, LogC(instances[1], i, pH))
    /\ UNCHANGED <<instances, plotVars>>

CallRepr(i) ==
    /\ instances # <<>>
    /\ pc = "idle"
    /\ ret' = Call("__repr__", i, 0, Repr(instances[1], i))
    /\ UNCHANGED <<instances, plotVars>>

\* plot_sillen_interactive(acids, deprot_levels, pH_range) up to the loop
PlotStart(acids, deprot_levels, pH_range) ==
    /\ pc = "idle"
    /\ args' = [acids |-> acids, deprot_levels |-> deprot_levels,
                pH_range |-> pH_range]
    /\ phg_left' = PhgLeftInit(pH_range)
    /\ phg_right' = PhgRightInit(pH_range)
    /\ ai' = 1
    /\ si' = 0
    /\ pc' = "loop"
    /\ ret' = Call("plot_sillen_interactive", 0, 0, [kind |-> "running"])
    /\ UNCHANGED instances

\* one pass of the body of the loop over the states i of the acid ai
PlotState ==
    /\ pc = "loop"
    /\ ai <= Len(args.acids)
    /\ LET acid == args.acids[ai]
           deprot_level == DeprotLevel(args.deprot_levels, ai)
           logc == LogcSeries(acid, si, args.pH_range)
       IN /\ phg_left' = IF ~deprot_level.none /\ si < deprot_level.level
                         THEN ListIAdd(phg_left, Exp10Array(logc))
                         ELSE phg_left
          /\ phg_right' = IF ~deprot_level.none /\ si > deprot_level.level
                          THEN ListIAdd(phg_right, Exp10Array(logc))
                          ELSE phg_right
          /\ IF si < Len(acid.pKa)
             THEN si' = si + 1 /\ ai' = ai
             ELSE si' = 0 /\ ai' = ai + 1
    /\ UNCHANGED <<instances, ret, pc, args>>

\* after the loops: the two series are handed to fig.add_line
PlotFinish ==
    /\ pc = "loop"
    /\ ai > Len(args.acids)
    /\ pc' = "done"
    /\ UNCHANGED <<instances, ret, args, ai, si, phg_left, phg_right>>

\* return fig
PlotReturn ==
    /\ pc = "done"
    /\ pc' = "idle"
    /\ args' = NoArgs
    /\ ai' = 0
    /\ si' = 0
    /\ phg_left' = <<>>
    /\ phg_right' = <<>>
    /\ ret' = Call("plot_sillen_interactive", 0, 0, Returned([tag |-> "fig"]))
    /\ UNCHANGED instances

\* the arguments the callers pass
Indexes == IF instances = <<>> THEN {} ELSE IndexInputs(instances[1])

PHs == IF instances = <<>> THEN {} ELSE PHInputs(instances[1])

AcidLists == IF instances = <<>> THEN {} ELSE {<<instances[1]>>, <<instances[1], instances[1]>>}

Next ==
    \/ \E pKa \in PKaInputs, C \in CInputs, name \in NameInputs, charge \in ChargeInputs :
          New(pKa, C, name, charge)
    \/ NewB
    \/ \E i \in Indexes, pH \in PHs : CallAlpha(i, pH)
    \/ \E i \in Indexes, pH \in PHs : CallC(i, pH)
    \/ \E i \in Indexes, pH \in PHs : CallLogc(i, pH)
    \/ \E i \in Indexes : CallRepr(i)
    \/ \E acids \in AcidLists, pH_range \in RangeInputs(PHs) :
          \E deprot_levels \in LevelInputs(acids[1], Len(acids)) :
             PlotStart(acids, deprot_levels, pH_range)
    \/ PlotState
    \/ PlotFinish
    \/ PlotReturn

Spec == Init /\ [][Next]_vars
(***************************************************************************)
(* Properties                                                              *)
(***************************************************************************)
Constructed == instances # <<>>

\* the instance and its number n of dissociation constants
Inst == instances[1]

N == Len(Inst.Ka)

\* the last call was op(i, pH) with a valid state i, and returned a value
ValidCall(op) ==
    /\ Constructed
    /\ ret.op = op
    /\ 0 <= ret.i /\ ret.i <= N
    /\ ret.out.kind = "value"

\* Ka[0] * ... * Ka[k-1]
RECURSIVE ProdKa(_, _)
ProdKa(Ka, k) == IF k <= 0 THEN DOne ELSE DMul(ProdKa(Ka, k - 1), Ka[k])

\* numerator(i) = H^(n-i) * Ka[0] * ... * Ka[i-1]
Numerator(Ka, H, i) == DMul(DPowNat(H, Len(Ka) - i), ProdKa(Ka, i))

\* sum over k = 0..upto of numerator(k)
RECURSIVE SumNumerators(_, _, _)
SumNumerators(Ka, H, upto) ==
    IF upto < 0 THEN DZero
    ELSE DAdd(SumNumerators(Ka, H, upto - 1), Numerator(Ka, H, upto))

\* sum over i = 0..upto of the numerators alpha computes
RECURSIVE SumEnum(_, _, _)
SumEnum(a, pH, upto) ==
    IF upto < 0 THEN DZero
    ELSE DAdd(SumEnum(a, pH, upto - 1), AlphaEnum(a, upto, pH).v)

\* sum over i = lo..hi of alpha(i, pH)
RECURSIVE SumAlpha(_, _, _, _)
SumAlpha(a, pH, lo, hi) ==
    IF lo > hi THEN FZero
    ELSE FAdd(Alpha(a, lo, pH).v.f, SumAlpha(a, pH, lo + 1, hi))

\* sum over i = lo..hi of c(i, pH)
RECURSIVE SumConc(_, _, _, _)
SumConc(a, pH, lo, hi) ==
    IF lo > hi THEN FZero
    ELSE FAdd(Conc(a, lo, pH).v.f, SumConc(a, pH, lo + 1, hi))

\* f > p / q and f < p / q, for q > 0
FGt(f, p, q) ==
    f.n * q * Pow10(-f.e) > p * f.d * Pow10(f.e)

FLt(f, p, q) ==
    f.n * q * Pow10(-f.e) < p * f.d * Pow10(f.e)

\* C1: for the constructed acid and every pH, the numerators alpha computes
\* for the states 0..n sum to the denominator it computes, the fractions it
\* returns sum to exactly 1, and the concentrations c returns sum to C.
Conservation ==
    /\ ValidCall("alpha") =>
          /\ SumEnum(Inst, ret.pH, N) = AlphaDenom(Inst, ret.pH)
          /\ FAdd(SumAlpha(Inst, ret.pH, 0, ret.i - 1),
                  FAdd(ret.out.v.f, SumAlpha(Inst, ret.pH, ret.i + 1, N))) = FOne
    /\ ValidCall("c") =>
          FAdd(SumConc(Inst, ret.pH, 0, ret.i - 1),
               FAdd(ret.out.v.f, SumConc(Inst, ret.pH, ret.i + 1, N)))
             = FracOf(Inst.C)

ConservationWitness ==
    /\ ValidCall("c")
    /\ N = 2
    /\ Inst.Ka[1] # Inst.Ka[2]
    /\ ret.i = 1
    /\ ret.pH = 100

\* C2: a per-state query of an acid (of positive concentration) with an index
\* below 0 or above n ends in an error and returns no number.
OutOfRangeSignals ==
    (/\ Constructed
     /\ Inst.C[1] > 0
     /\ ret.op \in {"alpha", "c", "logc"}
     /\ (ret.i < 0 \/ ret.i > N))
    => ret.out.kind = "error"

\* C3: no instance with C <= 0 exists.
NoNonPositiveC == Constructed => Inst.C[1] > 0

\* C4: alpha(i, pH) with a valid i returns numerator(i) / denominator of the
\* closed formula, and the term the outer loop adds for k is
\* H^(n-k) * Ka[0] * ... * Ka[k-1], the inner loop leaving k at its value.
FormulaCorrect ==
    ValidCall("alpha") =>
        LET H == Pow10Neg(ret.pH) IN
        /\ ret.out = Returned(Num(DDiv(Numerator(Inst.Ka, H, ret.i),
                                       SumNumerators(Inst.Ka, H, N))))
        /\ \A k \in 1..N :
              InnerLoop(Inst.Ka, 1, k, MathPow(H, N - k), k)
                 = <<Numerator(Inst.Ka, H, k), k>>

FormulaCorrectWitness ==
    /\ ValidCall("alpha")
    /\ N = 2
    /\ Inst.Ka[1] # Inst.Ka[2]
    /\ ret.i = 2
    /\ ret.pH = 100

\* C5: the value alpha(i, pH) returns for a valid i lies in [0, 1]:
\* 0 <= numerator <= denominator.
RangeValid ==
    ValidCall("alpha") =>
        /\ ret.out.v.f.n >= 0
        /\ FLeOne(ret.out.v.f)
        /\ DLe(DZero, AlphaEnum(Inst, ret.i, ret.pH).v)
        /\ DLe(AlphaEnum(Inst, ret.i, ret.pH).v, AlphaDenom(Inst, ret.pH))

RangeValidWitness ==
    /\ ValidCall("alpha")
    /\ N >= 1
    /\ ret.i = 0
    /\ ret.pH = 0
    /\ ret.out.v.f # FOne

\* the call alpha(3, 7.0) on the instance b of sillen.py has returned
ScenarioCall ==
    /\ ValidCall("alpha")
    /\ Inst.pKa = ScenarioPKa
    /\ Inst.C = <<1, 1>>
    /\ ret.i = 3
    /\ ret.pH = 700

\* C6 as stated: alpha(3, 7.0) of b exceeds 0.9.
ScenarioAboveNineTenths == ScenarioCall => FGt(ret.out.v.f, 9, 10)

\* C6, amended: alpha(3, 7.0) of b lies strictly between 0.75 and 0.8, so the
\* fully deprotonated state holds more than all the others together.
ScenarioDominates ==
    ScenarioCall => FGt(ret.out.v.f, 3, 4) /\ FLt(ret.out.v.f, 4, 5)

ScenarioWitness == ScenarioCall /\ ret.out.v.f.n > 0

\* two calls in a row with the same method and arguments
SameCall(r, q) == r.op = q.op /\ r.i = q.i /\ r.pH = q.pH

Degenerate ==
    (Constructed /\ N = 0 /\ ret.i = 0) =>
        /\ ret.op = "alpha" => ret.out = Returned(Num(FOne))
        /\ ret.op = "c" => ret.out = Returned(Num(FracOf(Inst.C)))

DegenerateWitness ==
    /\ ValidCall("alpha")
    /\ N = 0
    /\ ret.i = 0
    /\ ret.pH = 100

\* C9: for a state i < n, alpha(i+1, pH) * H = alpha(i, pH) * Ka[i]; when
\* pH equals pKa[0], alpha(0, pH) and alpha(1, pH) are equal.
AdjacentRatio ==
    (ValidCall("alpha") /\ ret.i < N) =>
        LET H == Pow10Neg(ret.pH)
            next == Alpha(Inst, ret.i + 1, ret.pH)
        IN /\ next.kind = "value"
           /\ FMulD(H, next.v.f) = FMulD(Inst.Ka[ret.i + 1], ret.out.v.f)
           /\ (ret.i = 0 /\ ret.pH = Inst.pKa[1]) => next = ret.out

AdjacentRatioWitness ==
    /\ ValidCall("alpha")
    /\ N = 2
    /\ ret.i = 0
    /\ ret.pH = Inst.pKa[1]
    /\ Inst.pKa[2] # Inst.pKa[1]
    /\ ret.pH = 100

\* sum of c(i, pH) over the acids k.. of the plot and their states below
\* (left) or above (right) the acid's deprot_level
RECURSIVE LeftSum(_, _)
LeftSum(k, pH) ==
    IF k > Len(args.acids) THEN FZero
    ELSE FAdd(SumConc(args.acids[k], pH, 0, args.deprot_levels.levels[k] - 1),
              LeftSum(k + 1, pH))

RECURSIVE RightSum(_, _)
RightSum(k, pH) ==
    IF k > Len(args.acids) THEN FZero
    ELSE FAdd(SumConc(args.acids[k], pH, args.deprot_levels.levels[k] + 1,
                      Len(args.acids[k].pKa)),
              RightSum(k + 1, pH))

====
